---- MODULE Spec2Model ----
(***************************************************************************)
(* Model of src/main.py: the M3U content check (is_m3u_content), the       *)
(* line-oriented playlist parser (parse_m3u) and the two request handlers  *)
(* (proxy, get_channels).                                                  *)
(*                                                                         *)
(* Text is a sequence of lexical atoms.  An atom stands for the literal    *)
(* characters it spells ("#EXTINF", ":", "http://", "tvg-name=", the       *)
(* double quote, a line break, a blank, a letter).  No atom is a substring *)
(* of the concatenation of other atoms, so Python's substring, prefix and  *)
(* regular-expression searches are searches over atoms.                    *)
(***************************************************************************)
EXTENDS Integers, Sequences, FiniteSets, TLC

VARIABLES content, lines, idx, channels, current_channel, ppc, result, valid,
          pc, kind, url, script, attempts, got, resp

pvars == <<content, lines, idx, channels, current_channel, ppc, result, valid>>
hvars == <<pc, kind, url, script, attempts, got, resp>>
vars == <<content, lines, idx, channels, current_channel, ppc, result, valid,
          pc, kind, url, script, attempts, got, resp>>

-----------------------------------------------------------------------------
(* Bounds of the model *)

MaxLines == 4
MaxLen == 3
MaxAttrs == 3
NumReqs == 2
MaxFails == 2

-----------------------------------------------------------------------------
(* Atoms *)

Q == "\""
NL == "\n"
CR == "\r"
SP == " "
None == <<"None">>

Whitespace == {SP, NL, CR, "\t"}
LineBreaks == {NL, CR}
UrlPrefixes == {"http://", "https://"}
EXTINF_PREFIX == <<"#EXTINF", ":">>

-----------------------------------------------------------------------------
(* Python string operations, over atoms *)

Min(S) == CHOOSE x \in S : \A y \in S : x <= y
Max(S) == CHOOSE x \in S : \A y \in S : x >= y

\* str.startswith(p)
StartsWith(s, p) == Len(s) >= Len(p) /\ SubSeq(s, 1, Len(p)) = p

\* p in s
Contains(s, p) ==
    \E i \in 1..(Len(s) - Len(p) + 1) : SubSeq(s, i, i + Len(p) - 1) = p

\* str.strip(): leading and trailing whitespace removed
Strip(s) ==
    LET keep == {i \in 1..Len(s) : s[i] \notin Whitespace}
    IN IF keep = {} THEN <<>> ELSE SubSeq(s, Min(keep), Max(keep))

\* str.splitlines(): breaks at "\n", "\r" and "\r\n"; no empty last line
RECURSIVE splitlines(_)
splitlines(s) ==
    IF s = <<>> THEN <<>>
    ELSE LET brk == {i \in 1..Len(s) : s[i] \in LineBreaks}
         IN IF brk = {} THEN <<s>>
            ELSE LET k == Min(brk)
                     e == IF s[k] = CR /\ k < Len(s) /\ s[k + 1] = NL
                          THEN k + 1 ELSE k
                 IN <<SubSeq(s, 1, k - 1)>> \o splitlines(SubSeq(s, e + 1, Len(s)))

\* str.split(',')[-1]
LastField(s) ==
    LET commas == {i \in 1..Len(s) : s[i] = ","}
    IN IF commas = {} THEN s ELSE SubSeq(s, Max(commas) + 1, Len(s))

\* re.search(name + '"([^"]*)"', line): <<>> for no match, else <<group(1)>>
re_search_attr(name, line) ==
    LET closing(i) == {j \in (i + 2)..Len(line) : line[j] = Q}
        starts == {i \in 1..(Len(line) - 2) :
                     line[i] = name /\ line[i + 1] = Q /\ closing(i) # {}}
    IN IF starts = {} THEN <<>>
       ELSE LET i == Min(starts)
            IN <<SubSeq(line, i + 2, Min(closing(i)) - 1)>>

\* the search without re.MULTILINE: '^' matches at the start of the text only
re_search_url_NoMultiline(s) == Len(s) >= 1 /\ s[1] \in UrlPrefixes

\* re.search(r'^https?://', content, re.MULTILINE)
re_search_url(s) ==
    \E i \in 1..Len(s) : s[i] \in UrlPrefixes /\ (i = 1 \/ s[i - 1] = NL)

-----------------------------------------------------------------------------
(* is_m3u_content *)

\* the check without the search for URL lines
is_m3u_content_NoUrls(c) ==
    IF c = <<>> THEN FALSE
    ELSE Contains(c, <<"#EXTINF">>) \/ Contains(c, <<"#EXTM3U">>)

\* the check asking for the '#EXTM3U' header
is_m3u_content_HeaderOnly(c) ==
    IF c = <<>> THEN FALSE
    ELSE Contains(c, <<"#EXTM3U">>)

is_m3u_content(c) ==
    IF c = <<>> THEN FALSE
    ELSE LET has_extinf == Contains(c, <<"#EXTINF">>)
             has_extm3u == Contains(c, <<"#EXTM3U">>)
             has_urls == re_search_url(c)
         IN has_extinf \/ has_extm3u \/ has_urls

-----------------------------------------------------------------------------
(* Channel and parse_m3u *)

\* Channel.__init__
Channel == [title |-> <<>>, logo |-> None, group |-> <<>>, url |-> <<>>]

\* Channel.to_dict
to_dict(ch) == [title |-> ch.title, logo |-> ch.logo, group |-> ch.group, url |-> ch.url]

IsExtinfLine(line) == StartsWith(line, EXTINF_PREFIX)
IsUrlLine(line) == \E p \in UrlPrefixes : StartsWith(line, <<p>>)

\* the fallback title taken without .strip()
ParseTitle_NoStrip(line) ==
    LET title_match == re_search_attr("tvg-name=", line)
    IN IF title_match # <<>> THEN title_match[1]
       ELSE LastField(line)

\* the title of an '#EXTINF:' line
ParseTitle(line) ==
    LET title_match == re_search_attr("tvg-name=", line)
    IN IF title_match # <<>> THEN title_match[1]
       ELSE Strip(LastField(line))

\* the logo looked for only right after the duration: an order-dependent search
ExtinfChannel_Anchored(line) ==
    LET logo_match == IF Len(line) >= 5 /\ line[5] = "tvg-logo="
                      THEN re_search_attr("tvg-logo=", line) ELSE <<>>
        group_match == re_search_attr("group-title=", line)
    IN [title |-> ParseTitle(line),
        logo |-> IF logo_match # <<>> THEN logo_match[1] ELSE Channel.logo,
        group |-> IF group_match # <<>> THEN group_match[1] ELSE Channel.group,
        url |-> Channel.url]

\* the '#EXTINF:' branch: a fresh Channel filled from the line
ExtinfChannel(line) ==
    LET logo_match == re_search_attr("tvg-logo=", line)
        group_match == re_search_attr("group-title=", line)
    IN [title |-> ParseTitle(line),
        logo |-> IF logo_match # <<>> THEN logo_match[1] ELSE Channel.logo,
        group |-> IF group_match # <<>> THEN group_match[1] ELSE Channel.group,
        url |-> Channel.url]

\* the URL branch without 'current_channel = None'
UrlBranch_NoClear(st, line) ==
    IF st.cur # <<>>
    THEN [chs |-> Append(st.chs, [st.cur[1] EXCEPT !.url = line]), cur |-> st.cur]
    ELSE st

\* the URL branch inserting at the front of the list
UrlBranch_Prepend(st, line) ==
    IF st.cur # <<>>
    THEN [chs |-> <<[st.cur[1] EXCEPT !.url = line]>> \o st.chs, cur |-> <<>>]
    ELSE st

\* the URL branch without 'if current_channel': an orphan URL makes a record
UrlBranch_Orphan(st, line) ==
    IF st.cur # <<>>
    THEN [chs |-> Append(st.chs, [st.cur[1] EXCEPT !.url = line]), cur |-> <<>>]
    ELSE [chs |-> Append(st.chs, [Channel EXCEPT !.url = line]), cur |-> <<>>]

\* the URL branch; st.cur is <<>> (None) or <<channel>>
UrlBranch(st, line) ==
    IF st.cur # <<>>
    THEN [chs |-> Append(st.chs, [st.cur[1] EXCEPT !.url = line]), cur |-> <<>>]
    ELSE st

\* the loop dropping the pending channel at a line it does not recognise
ParseLine_ResetOnOther(st, raw) ==
    LET line == Strip(raw)
    IN IF line = <<>> THEN st
       ELSE IF IsExtinfLine(line) THEN [chs |-> st.chs, cur |-> <<ExtinfChannel(line)>>]
       ELSE IF IsUrlLine(line) THEN UrlBranch(st, line)
       ELSE [chs |-> st.chs, cur |-> <<>>]

\* the loop appending a still pending channel when the next '#EXTINF:' line comes
ParseLine_FlushOnExtinf(st, raw) ==
    LET line == Strip(raw)
    IN IF line = <<>> THEN st
       ELSE IF IsExtinfLine(line)
            THEN [chs |-> IF st.cur # <<>> THEN Append(st.chs, st.cur[1]) ELSE st.chs,
                  cur |-> <<ExtinfChannel(line)>>]
       ELSE IF IsUrlLine(line) THEN UrlBranch(st, line)
       ELSE st

\* the loop filling the pending Channel again instead of making a new one: a
\* field the new line does not set keeps the value of the discarded line
ParseLine_Reuse(st, raw) ==
    LET line == Strip(raw)
        new == ExtinfChannel(line)
    IN IF line = <<>> THEN st
       ELSE IF IsExtinfLine(line)
            THEN [chs |-> st.chs,
                  cur |-> IF st.cur = <<>> THEN <<new>>
                          ELSE <<[new EXCEPT
                                    !.logo = IF new.logo = Channel.logo
                                             THEN st.cur[1].logo ELSE new.logo,
                                    !.group = IF new.group = Channel.group
                                              THEN st.cur[1].group ELSE new.group]>>]
       ELSE IF IsUrlLine(line) THEN UrlBranch(st, line)
       ELSE st

\* one iteration of the loop over content.splitlines()
ParseLine(st, raw) ==
    LET line == Strip(raw)
    IN IF line = <<>> THEN st
       ELSE IF IsExtinfLine(line) THEN [chs |-> st.chs, cur |-> <<ExtinfChannel(line)>>]
       ELSE IF IsUrlLine(line) THEN UrlBranch(st, line)
       ELSE st

RECURSIVE ParseLoop(_, _, _)
ParseLoop(st, ls, k) ==
    IF k > Len(ls) THEN st ELSE ParseLoop(ParseLine(st, ls[k]), ls, k + 1)

parse_m3u(c) == ParseLoop([chs |-> <<>>, cur |-> <<>>], splitlines(c), 1).chs

\* the JSON result of get_channels
ChannelsResult(chs) ==
    [total |-> Len(chs), channels |-> [k \in 1..Len(chs) |-> to_dict(chs[k])]]

NoResult == [total |-> 0, channels |-> <<>>]

-----------------------------------------------------------------------------
(* Input texts *)

RECURSIVE Join(_)
Join(ls) ==
    IF ls = <<>> THEN <<>>
    ELSE IF Len(ls) = 1 THEN ls[1]
    ELSE ls[1] \o <<NL>> \o Join(Tail(ls))

\* playlists of up to MaxLines lines, each one of these lines
LineKinds ==
    { <<"#EXTINF", ":", "-1", ",", "A">>,
      <<"#EXTINF", ":", "-1", ",", SP, Q, "B", Q>>,
      <<"http://", "a">>,
      <<SP, "https://", "b", SP>>,
      <<"#EXTM3U">>,
      <<>> }

PlaylistTexts ==
    {Join(ls) : ls \in UNION {[1..n -> LineKinds] : n \in 0..MaxLines}}

\* one '#EXTINF:' line carrying up to MaxAttrs attributes in any order,
\* followed by a URL line
AttrNames ==
    {"tvg-name=", "tvg-logo=", "group-title=", "tvg-id=", "tvg-language=", "tvg-country="}

AttrValue(name) ==
    CASE name = "tvg-name=" -> "N"
      [] name = "tvg-logo=" -> "L"
      [] name = "group-title=" -> "G"
      [] name = "tvg-id=" -> "I"
      [] name = "tvg-language=" -> "T"
      [] name = "tvg-country=" -> "C"

AttrOrders ==
    {o \in UNION {[1..n -> AttrNames] : n \in 0..MaxAttrs} :
        \A i, j \in 1..Len(o) : i # j => o[i] # o[j]}

RECURSIVE AttrText(_)
AttrText(o) ==
    IF o = <<>> THEN <<>>
    ELSE <<SP, o[1], Q, AttrValue(o[1]), Q>> \o AttrText(Tail(o))

Tails == { <<>>, <<",", "D">>, <<",", SP, Q, "D", Q>> }

AttrTexts ==
    {EXTINF_PREFIX \o <<"-1">> \o AttrText(o) \o t \o <<NL, "http://", "a">> :
        o \in AttrOrders, t \in Tails}

\* every text of up to MaxLen atoms
ShortAlphabet ==
    {"#EXTINF", ":", "#EXTM3U", "http://", "https://", NL, CR, SP, "x"}

ShortTexts == UNION {[1..n -> ShortAlphabet] : n \in 0..MaxLen}

\* playlists in which a line with attributes, a line without and a URL line
\* follow each other in every order
CarryLines ==
    { <<"#EXTINF", ":", "-1", SP, "tvg-logo=", Q, "L", Q, SP, "group-title=", Q, "G", Q,
        ",", "D">>,
      <<"#EXTINF", ":", "-1", ",", "A">>,
      <<"http://", "a">> }

CarryTexts ==
    {Join(ls) : ls \in UNION {[1..n -> CarryLines] : n \in 0..MaxLines}}

Texts == PlaylistTexts \cup AttrTexts \cup ShortTexts \cup CarryTexts

-----------------------------------------------------------------------------
(* The request handlers *)

Reqs == 1..NumReqs

\* the url query parameter: empty, plain, percent-encoded, or not http(s)
RawUrls ==
    { <<>>, <<"http://", "h">>, <<"http://", "%68">>, <<"ftp://", "h">> }

\* urllib.parse.unquote
unquote(u) == [i \in 1..Len(u) |-> IF u[i] = "%68" THEN "h" ELSE u[i]]

\* a client that sends a request for any non-empty URL
Fetchable_AnyScheme(u) == u # <<>>

\* client.get sends nothing for a URL that is not http(s): httpx raises
\* UnsupportedProtocol, a RequestError
Fetchable(u) == u # <<>> /\ u[1] \in {"http://", "https://"}

\* what the upstream can answer
Statuses == {200, 204, 404, 503}

Bodies ==
    { <<>>,
      <<"x">>,
      <<"http://", "a">>,
      <<"#EXTINF", ":", "-1", ",", "A", NL, "http://", "a">>,
      <<"#EXTM3U", NL, "#EXTINF", ":", "-1", ",", "A", NL, "http://", "a", NL,
        "#EXTINF", ":", "-1", ",", "B", NL, "https://", "b">> }

\* an upstream response: its status, its body, and whether response.text decodes
Responses ==
    {[status |-> st, text |-> <<>>, decodes |-> TRUE] : st \in Statuses \ {200}}
    \cup {[status |-> 200, text |-> b, decodes |-> TRUE] : b \in Bodies}
    \cup {[status |-> 200, text |-> <<>>, decodes |-> FALSE]}

NoResponse == [status |-> 0, text |-> <<>>, decodes |-> TRUE]

\* a reply of a handler: HTTP status, error ("none" for success), the plain
\* text body of proxy, the JSON result of get_channels
Reply(st, err) == [status |-> st, error |-> err, text |-> <<>>, json |-> NoResult]
NoReply == Reply(0, "none")

\* proxy, from the upstream response on
ProxyReply_NoValidation(rsp) ==
    IF rsp.status # 200 THEN Reply(rsp.status, "UpstreamStatus")
    ELSE IF ~rsp.decodes THEN Reply(500, "DecodeFailed")
    ELSE [status |-> 200, error |-> "none", text |-> rsp.text, json |-> NoResult]

ProxyReply(rsp) ==
    IF rsp.status # 200 THEN Reply(rsp.status, "UpstreamStatus")
    ELSE IF ~rsp.decodes THEN Reply(500, "DecodeFailed")
    ELSE IF ~is_m3u_content(rsp.text) THEN Reply(400, "InvalidFormat")
    ELSE [status |-> 200, error |-> "none", text |-> rsp.text, json |-> NoResult]

\* get_channels with the decode failure escaping every handler: no reply is made
ChannelsReply_Raise(rsp) ==
    IF rsp.status # 200 THEN Reply(rsp.status, "UpstreamStatus")
    ELSE IF ~rsp.decodes THEN Reply(0, "none")
    ELSE [status |-> 200, error |-> "none", text |-> <<>>,
          json |-> ChannelsResult(parse_m3u(rsp.text))]

\* get_channels, from the upstream response on
ChannelsReply(rsp) ==
    IF rsp.status # 200 THEN Reply(rsp.status, "UpstreamStatus")
    ELSE IF ~rsp.decodes THEN Reply(500, "Unexpected")
    ELSE [status |-> 200, error |-> "none", text |-> <<>>,
          json |-> ChannelsResult(parse_m3u(rsp.text))]

\* a handler without 'if not url': the empty url goes on to client.get
Call_NoEmptyCheck(r, k, u, n) ==
    /\ pc[r] = "idle"
    /\ kind' = [kind EXCEPT ![r] = k]
    /\ url' = [url EXCEPT ![r] = u]
    /\ IF ~Fetchable(unquote(u))
       THEN /\ resp' = [resp EXCEPT ![r] = Reply(500, "RequestFailed")]
            /\ pc' = [pc EXCEPT ![r] = "done"]
            /\ UNCHANGED <<script, attempts>>
       ELSE /\ attempts' = [attempts EXCEPT ![r] = @ + 1]
            /\ script' = [script EXCEPT ![r] = n]
            /\ pc' = [pc EXCEPT ![r] = "awaiting"]
            /\ UNCHANGED resp
    /\ UNCHANGED got
    /\ UNCHANGED pvars

\* a handler called with url u, up to its await of client.get; n is the number
\* of transport failures the upstream gives before it answers
Call(r, k, u, n) ==
    /\ pc[r] = "idle"
    /\ kind' = [kind EXCEPT ![r] = k]
    /\ url' = [url EXCEPT ![r] = u]
    /\ IF u = <<>>
       THEN /\ resp' = [resp EXCEPT ![r] = Reply(400, "BadRequest")]
            /\ pc' = [pc EXCEPT ![r] = "done"]
            /\ UNCHANGED <<script, attempts>>
       ELSE IF ~Fetchable(unquote(u))
       THEN /\ resp' = [resp EXCEPT ![r] = Reply(500, "RequestFailed")]
            /\ pc' = [pc EXCEPT ![r] = "done"]
            /\ UNCHANGED <<script, attempts>>
       ELSE /\ attempts' = [attempts EXCEPT ![r] = @ + 1]
            /\ script' = [script EXCEPT ![r] = n]
            /\ pc' = [pc EXCEPT ![r] = "awaiting"]
            /\ UNCHANGED resp
    /\ UNCHANGED got
    /\ UNCHANGED pvars

\* a call that first looks for the result of an earlier successful request
ChannelsCall_Cached(r, u, n) ==
    IF \E q \in Reqs : /\ pc[q] = "done" /\ kind[q] = "channels"
                       /\ resp[q].error = "none" /\ unquote(url[q]) = unquote(u)
    THEN /\ pc[r] = "idle"
         /\ \E q \in Reqs :
               /\ pc[q] = "done" /\ kind[q] = "channels"
               /\ resp[q].error = "none" /\ unquote(url[q]) = unquote(u)
               /\ resp' = [resp EXCEPT ![r] = resp[q]]
         /\ kind' = [kind EXCEPT ![r] = "channels"]
         /\ url' = [url EXCEPT ![r] = u]
         /\ pc' = [pc EXCEPT ![r] = "done"]
         /\ UNCHANGED <<script, attempts, got>>
         /\ UNCHANGED pvars
    ELSE Call(r, "channels", u, n)

\* a call that joins the fetch of a request already in flight for the same URL
ChannelsCall_SingleFlight(r, u, n) ==
    IF \E q \in Reqs : /\ pc[q] = "awaiting" /\ kind[q] = "channels"
                       /\ unquote(url[q]) = unquote(u)
    THEN /\ pc[r] = "idle"
         /\ kind' = [kind EXCEPT ![r] = "channels"]
         /\ url' = [url EXCEPT ![r] = u]
         /\ pc' = [pc EXCEPT ![r] = "awaiting"]
         /\ UNCHANGED <<script, attempts, got, resp>>
         /\ UNCHANGED pvars
    ELSE Call(r, "channels", u, n)

ProxyCall(r, u, n) == Call(r, "proxy", u, n)

ChannelsCall(r, u, n) == Call(r, "channels", u, n)

\* a handler that sends the request again after a RequestError
RequestError_Retry(r) ==
    /\ pc[r] = "awaiting"
    /\ script[r] > 0
    /\ script' = [script EXCEPT ![r] = @ - 1]
    /\ attempts' = [attempts EXCEPT ![r] = @ + 1]
    /\ UNCHANGED <<pc, kind, url, got, resp>>
    /\ UNCHANGED pvars

\* client.get raises httpx.RequestError
RequestError(r) ==
    /\ pc[r] = "awaiting"
    /\ script[r] > 0
    /\ resp' = [resp EXCEPT ![r] = Reply(500, "RequestFailed")]
    /\ pc' = [pc EXCEPT ![r] = "done"]
    /\ UNCHANGED <<kind, url, script, attempts, got>>
    /\ UNCHANGED pvars

ProxyRequestError(r) == kind[r] = "proxy" /\ RequestError(r)

ChannelsRequestError(r) == kind[r] = "channels" /\ RequestError(r)

\* client.get returns the upstream response; the handler runs to its return
Respond(r, rsp, reply) ==
    /\ pc[r] = "awaiting"
    /\ script[r] = 0
    /\ got' = [got EXCEPT ![r] = rsp]
    /\ resp' = [resp EXCEPT ![r] = reply]
    /\ pc' = [pc EXCEPT ![r] = "done"]
    /\ UNCHANGED <<kind, url, script, attempts>>
    /\ UNCHANGED pvars

ProxyResponse(r, rsp) == kind[r] = "proxy" /\ Respond(r, rsp, ProxyReply(rsp))

ChannelsResponse(r, rsp) == kind[r] = "channels" /\ Respond(r, rsp, ChannelsReply(rsp))


-----------------------------------------------------------------------------
(* The parser and the content check, run on every input text *)

HIdle ==
    /\ pc = [r \in Reqs |-> "idle"]
    /\ kind = [r \in Reqs |-> "none"]
    /\ url = [r \in Reqs |-> <<>>]
    /\ script = [r \in Reqs |-> 0]
    /\ attempts = [r \in Reqs |-> 0]
    /\ got = [r \in Reqs |-> NoResponse]
    /\ resp = [r \in Reqs |-> NoReply]

PIdle ==
    /\ lines = <<>>
    /\ idx = 0
    /\ channels = <<>>
    /\ current_channel = <<>>
    /\ ppc = "start"
    /\ result = NoResult
    /\ valid = FALSE

InitParse == content \in Texts /\ PIdle /\ HIdle

\* a call of is_m3u_content(content)
Validate ==
    /\ ppc = "start"
    /\ valid' = is_m3u_content(content)
    /\ ppc' = "validated"
    /\ UNCHANGED <<content, lines, idx, channels, current_channel, result>>
    /\ UNCHANGED hvars

\* parse_m3u entered: channels = [], current_channel = None, the lines split
ParseStart ==
    /\ ppc = "start"
    /\ lines' = splitlines(content)
    /\ idx' = 0
    /\ channels' = <<>>
    /\ current_channel' = <<>>
    /\ ppc' = "loop"
    /\ UNCHANGED <<content, result, valid>>
    /\ UNCHANGED hvars

\* the line the loop reads next, stripped
NextLine == Strip(lines[idx + 1])

LoopStep ==
    LET st == ParseLine([chs |-> channels, cur |-> current_channel], lines[idx + 1])
    IN /\ channels' = st.chs
       /\ current_channel' = st.cur
       /\ idx' = idx + 1
       /\ UNCHANGED <<content, lines, ppc, result, valid>>
       /\ UNCHANGED hvars

LineBlank ==
    /\ ppc = "loop" /\ idx < Len(lines)
    /\ NextLine = <<>>
    /\ LoopStep

LineExtinf ==
    /\ ppc = "loop" /\ idx < Len(lines)
    /\ NextLine # <<>> /\ IsExtinfLine(NextLine)
    /\ LoopStep

LineUrl ==
    /\ ppc = "loop" /\ idx < Len(lines)
    /\ NextLine # <<>> /\ ~IsExtinfLine(NextLine) /\ IsUrlLine(NextLine)
    /\ LoopStep

LineOther ==
    /\ ppc = "loop" /\ idx < Len(lines)
    /\ NextLine # <<>> /\ ~IsExtinfLine(NextLine) /\ ~IsUrlLine(NextLine)
    /\ LoopStep

\* parse_m3u returns; get_channels builds its result from the list
ParseReturn ==
    /\ ppc = "loop" /\ idx = Len(lines)
    /\ result' = ChannelsResult(channels)
    /\ ppc' = "returned"
    /\ UNCHANGED <<content, lines, idx, channels, current_channel, valid>>
    /\ UNCHANGED hvars

NextParse ==
    \/ Validate
    \/ ParseStart
    \/ LineBlank
    \/ LineExtinf
    \/ LineUrl
    \/ LineOther
    \/ ParseReturn

SpecParse == InitParse /\ [][NextParse]_vars

-----------------------------------------------------------------------------
(* The handlers serving NumReqs requests, which may overlap *)

Init == content = <<>> /\ PIdle /\ HIdle

Next ==
    \E r \in Reqs :
        \/ \E u \in RawUrls, n \in 0..MaxFails : ProxyCall(r, u, n)
        \/ \E u \in RawUrls, n \in 0..MaxFails : ChannelsCall(r, u, n)
        \/ ProxyRequestError(r)
        \/ ChannelsRequestError(r)
        \/ \E rsp \in Responses : ProxyResponse(r, rsp)
        \/ \E rsp \in Responses : ChannelsResponse(r, rsp)

Spec == Init /\ [][Next]_vars

\* the awaited client.get of request r completes: the client's timeouts bound
\* the wait, and the event loop resumes the handler
Resume(r) ==
    \/ ProxyRequestError(r)
    \/ ChannelsRequestError(r)
    \/ \E rsp \in Responses : ProxyResponse(r, rsp)
    \/ \E rsp \in Responses : ChannelsResponse(r, rsp)

-----------------------------------------------------------------------------
(* Properties of parse_m3u and is_m3u_content *)

\* the lines of the input as the loop sees them, and their kinds
LineAt(k) == Strip(lines[k])
IsE(k) == Len(LineAt(k)) >= 2 /\ LineAt(k)[1] = "#EXTINF" /\ LineAt(k)[2] = ":"
IsU(k) == Len(LineAt(k)) >= 1 /\ LineAt(k)[1] \in {"http://", "https://"}

\* URL line j completes the '#EXTINF:' line i: no '#EXTINF:' or URL line between
Completes(i, j) ==
    /\ i < j /\ IsE(i) /\ IsU(j)
    /\ \A k \in (i + 1)..(j - 1) : ~IsE(k) /\ ~IsU(k)

\* the URL lines among the first n lines that complete an '#EXTINF:' line
Completing(n) == {j \in 1..n : \E i \in 1..n : Completes(i, j)}

\* the k-th smallest element of S
Nth(S, k) == CHOOSE j \in S : Cardinality({m \in S : m < j}) = k - 1

InLoop == ppc \in {"loop", "returned"}

\* C1: after any number of lines read, the list holds exactly one record per
\* '#EXTINF:' line whose next '#EXTINF:'-or-URL line is a URL line; an '#EXTINF:'
\* line followed by another '#EXTINF:' line or by the end of input gives none.
C1_OneRecordPerCompletedExtinf ==
    InLoop =>
        Len(channels) =
            Cardinality({i \in 1..idx : IsE(i) /\ \E j \in 1..idx : Completes(i, j)})

C1_Witness ==
    /\ ppc = "returned" /\ Len(lines) = 3
    /\ IsE(1) /\ IsE(2) /\ IsU(3)
    /\ Len(channels) = 1
    /\ channels[1].title = <<Q, "B", Q>>
    /\ channels[1].url = <<"http://", "a">>

\* C2: the records are in the order of their completing URL lines in the input,
\* and the total of the channels result is the number of records.
C2_RecordsInInputOrder ==
    ppc = "returned" =>
        LET S == Completing(Len(lines))
        IN /\ Len(result.channels) = Cardinality(S)
           /\ \A k \in 1..Len(result.channels) :
                 result.channels[k].url = LineAt(Nth(S, k))
           /\ result.total = Len(channels)
           /\ result.total = Len(result.channels)

C2_Witness ==
    /\ ppc = "returned"
    /\ result.total = 2
    /\ result.channels[1].url = <<"https://", "b">>
    /\ result.channels[2].url = <<"http://", "a">>

\* C3: a URL line read while no channel is pending leaves the list and the
\* pending slot unchanged.
C3_OrphanUrlIgnored ==
    [][(ppc = "loop" /\ idx < Len(lines) /\ IsU(idx + 1) /\ current_channel = <<>>)
         => (channels' = channels /\ current_channel' = current_channel)]_vars

C3_Witness ==
    /\ ppc = "loop" /\ idx = 3
    /\ IsE(1) /\ IsU(2) /\ IsU(3)
    /\ Len(channels) = 1 /\ current_channel = <<>>

\* the text cut at every "\n"
RECURSIVE NewlineLines(_)
NewlineLines(s) ==
    IF \A i \in 1..Len(s) : s[i] # NL THEN {s}
    ELSE LET k == Min({i \in 1..Len(s) : s[i] = NL})
         IN {SubSeq(s, 1, k - 1)} \cup NewlineLines(SubSeq(s, k + 1, Len(s)))

HasAtom(s, a) == \E i \in 1..Len(s) : s[i] = a

\* C4: is_m3u_content is false on the empty text; on a non-empty text it is true
\* exactly when the text contains '#EXTINF', or contains '#EXTM3U', or one of its
\* newline-delimited lines begins with 'http://' or 'https://'.
C4_ContentCheck ==
    ppc = "validated" =>
        /\ content = <<>> => ~valid
        /\ content # <<>> =>
              (valid <=>
                 \/ HasAtom(content, "#EXTINF")
                 \/ HasAtom(content, "#EXTM3U")
                 \/ \E l \in NewlineLines(content) :
                       l # <<>> /\ l[1] \in {"http://", "https://"})

C4_Witness ==
    /\ ppc = "validated" /\ valid
    /\ ~HasAtom(content, "#EXTINF") /\ ~HasAtom(content, "#EXTM3U")
    /\ content[1] \notin {"http://", "https://"}

\* the '#EXTINF:' line just read, when the last line read is one
JustReadExtinf == ppc = "loop" /\ idx >= 1 /\ IsE(idx)

\* the text after the last comma of s
AfterLastComma(s) ==
    LET t == CHOOSE k \in 0..Len(s) :
                /\ k = 0 \/ s[k] = ","
                /\ \A m \in (k + 1)..Len(s) : s[m] # ","
    IN SubSeq(s, t + 1, Len(s))

RECURSIVE StripChars(_, _)
StripChars(s, cs) ==
    IF s = <<>> THEN s
    ELSE IF s[1] \in cs THEN StripChars(Tail(s), cs)
    ELSE IF s[Len(s)] \in cs THEN StripChars(SubSeq(s, 1, Len(s) - 1), cs)
    ELSE s

\* C5 as stated: without tvg-name, the title is the text after the last comma
\* with surrounding quote characters and whitespace stripped.
C5_Original ==
    (JustReadExtinf /\ ~HasAtom(LineAt(idx), "tvg-name=") /\ HasAtom(LineAt(idx), ","))
        => /\ current_channel # <<>>
           /\ current_channel[1].title =
                 StripChars(AfterLastComma(LineAt(idx)), Whitespace \cup {Q})

\* C5 as amended: without tvg-name, the title is the text after the last comma
\* (the whole line when it has no comma) with surrounding whitespace stripped;
\* quote characters are kept.
C5_FallbackTitle ==
    (JustReadExtinf /\ ~HasAtom(LineAt(idx), "tvg-name="))
        => /\ current_channel # <<>>
           /\ current_channel[1].title = StripChars(AfterLastComma(LineAt(idx)), Whitespace)

C5_Witness ==
    /\ JustReadExtinf
    /\ ~HasAtom(LineAt(idx), "tvg-name=") /\ HasAtom(LineAt(idx), ",")
    /\ current_channel[1].title = <<Q, "B", Q>>

\* the value written after attribute a on the line: a, quote, value, quote
ValueOn(a, line) ==
    LET i == Min({k \in 1..Len(line) : line[k] = a})
    IN <<line[i + 2]>>

\* the field of the record an attribute maps to; a field the record lacks reads
\* as absent
FieldFor(a, ch) ==
    CASE a = "tvg-name=" -> ch.title
      [] a = "tvg-logo=" -> ch.logo
      [] a = "group-title=" -> ch.group
      [] a = "tvg-id=" -> IF "id" \in DOMAIN ch THEN ch.id ELSE None
      [] a = "tvg-language=" -> IF "language" \in DOMAIN ch THEN ch.language ELSE None
      [] a = "tvg-country=" -> IF "country" \in DOMAIN ch THEN ch.country ELSE None

DefaultFor(a) ==
    CASE a \in {"tvg-name=", "group-title="} -> <<>>
      [] OTHER -> None

-----------------------------------------------------------------------------
(* Properties of the handlers *)

Fetched(r) == pc[r] # "idle" /\ Fetchable(unquote(url[r]))

LaterCall(r) ==
    /\ pc[r] = "idle" /\ pc'[r] # "idle" /\ kind'[r] = "channels"
    /\ \E q \in Reqs :
          /\ pc[q] = "done" /\ kind[q] = "channels" /\ resp[q].error = "none"
          /\ unquote(url[q]) = unquote(url'[r])

C9_UpstreamStatus ==
    \A r \in Reqs :
        (pc[r] = "done" /\ got[r] # NoResponse) =>
            IF got[r].status \in 200..299
            THEN resp[r].error # "UpstreamStatus"
            ELSE resp[r].error = "UpstreamStatus" /\ resp[r].status = got[r].status

\* an upstream answer of status 200 with a decodable body of length zero
EmptyBody(r) ==
    /\ pc[r] = "done"
    /\ got[r].status = 200 /\ got[r].decodes /\ got[r].text = <<>>

FetchSucceeded(r) == got[r].status = 200 /\ got[r].decodes

\* the body is playlist-shaped: a marker, or a URL at the start of a line
PlaylistShaped(b) ==
    /\ b # <<>>
    /\ \/ HasAtom(b, "#EXTINF")
       \/ HasAtom(b, "#EXTM3U")
       \/ \E l \in NewlineLines(b) : l # <<>> /\ l[1] \in {"http://", "https://"}

C12_EmptyUrl ==
    \A r \in Reqs :
        (pc[r] # "idle" /\ url[r] = <<>>) =>
            /\ pc[r] = "done"
            /\ resp[r] = Reply(400, "BadRequest")
            /\ attempts[r] = 0
            /\ got[r] = NoResponse

C12_Witness ==
    \E q, r \in Reqs :
        /\ kind[q] = "proxy" /\ kind[r] = "channels"
        /\ pc[q] = "done" /\ pc[r] = "done"
        /\ url[q] = <<>> /\ url[r] = <<>>
        /\ resp[q].status = 400 /\ resp[r].status = 400

\* the url of request r is not empty and its scheme is neither http nor https
OtherScheme(r) ==
    /\ pc[r] # "idle" /\ url[r] # <<>>
    /\ unquote(url[r])[1] \notin {"http://", "https://"}

ChannelsCalled(r) == pc[r] = "idle" /\ pc'[r] # "idle" /\ kind'[r] = "channels"

Failed(r) ==
    \/ url[r] = <<>>
    \/ ~Fetchable(unquote(url[r]))
    \/ script[r] > 0
    \/ got[r].status # 200
    \/ ~got[r].decodes
    \/ kind[r] = "proxy" /\ ~PlaylistShaped(got[r].text)

\* C15: every request that was called ends with exactly one response: while a
\* request awaits its fetch a step that resumes it is enabled, every step it
\* takes then answers it, an answer once made is never changed, and every
\* failure mode ends in an error response.
C15_EveryRequestAnswered ==
    /\ [](\A r \in Reqs :
            /\ pc[r] \in {"idle", "awaiting", "done"}
            /\ pc[r] = "awaiting" => ENABLED Resume(r)
            /\ pc[r] # "done" => resp[r] = NoReply
            /\ pc[r] = "done" =>
                  /\ resp[r].status # 0
                  /\ resp[r].error = "none" => resp[r].status = 200
                  /\ Failed(r) <=> resp[r].error # "none")
    /\ [][\A r \in Reqs :
            /\ (pc[r] = "awaiting" /\ <<pc[r], resp[r], got[r]>> # <<pc'[r], resp'[r], got'[r]>>)
                  => pc'[r] = "done"
            /\ pc[r] = "done" => (pc'[r] = "done" /\ resp'[r] = resp[r])]_vars

C15_Witness ==
    \E q, r \in Reqs :
        /\ pc[q] = "done" /\ kind[q] = "channels"
        /\ got[q].status = 200 /\ ~got[q].decodes
        /\ resp[q] = Reply(500, "Unexpected")
        /\ pc[r] = "done" /\ kind[r] = "proxy"
        /\ script[r] > 0 /\ resp[r] = Reply(500, "RequestFailed")

\* channels request r is called in this step while another channels request for
\* the same decoded URL is in flight
OverlappingCall(r) ==
    /\ ChannelsCalled(r)
    /\ \E q \in Reqs : /\ q # r /\ pc[q] = "awaiting" /\ kind[q] = "channels"
                       /\ unquote(url[q]) = unquote(url'[r])

\* C16: two overlapping channels requests for the same URL each make their own
\* outbound fetch, each success carries the parse of the body that request
\* fetched itself, and no step of one request changes anything of the other.
C16_NoSingleFlight ==
    [][\A r \in Reqs :
          /\ OverlappingCall(r) =>
                (attempts'[r] = attempts[r] + 1 /\ pc'[r] = "awaiting")
          /\ (pc[r] = "awaiting" /\ pc'[r] = "done" /\ kind[r] = "channels"
                /\ resp'[r].error = "none") =>
                /\ attempts[r] = 1
                /\ resp'[r].json.total = Len(parse_m3u(got'[r].text))
                /\ \A k \in 1..resp'[r].json.total :
                      resp'[r].json.channels[k].url = parse_m3u(got'[r].text)[k].url
          /\ pc'[r] # pc[r] =>
                \A q \in Reqs \ {r} :
                    <<pc'[q], kind'[q], url'[q], attempts'[q], got'[q], resp'[q]>>
                        = <<pc[q], kind[q], url[q], attempts[q], got[q], resp[q]>>]_vars

C16_Witness ==
    \E q, r \in Reqs :
        /\ q # r
        /\ kind[q] = "channels" /\ kind[r] = "channels"
        /\ unquote(url[q]) = unquote(url[r])
        /\ url[q] = <<"http://", "h">> /\ url[r] = <<"http://", "%68">>
        /\ pc[q] = "awaiting" /\ pc[r] = "awaiting"
        /\ attempts[q] = 1 /\ attempts[r] = 1

\* the line the loop reads next is not blank and is neither an '#EXTINF:' line
\* nor a URL line
ReadsOtherLine ==
    /\ ppc = "loop" /\ idx < Len(lines)
    /\ LineAt(idx + 1) # <<>> /\ ~IsE(idx + 1) /\ ~IsU(idx + 1)

\* C17: a non-blank line that starts with neither '#EXTINF:' nor 'http://' nor
\* 'https://' changes neither the pending channel nor the list, so a pending
\* channel survives it.
C17_OtherLineSkipped ==
    [][ReadsOtherLine =>
          (channels' = channels /\ current_channel' = current_channel)]_vars

C17_Witness ==
    /\ ppc = "returned" /\ Len(lines) = 3
    /\ IsE(1) /\ LineAt(2) = <<"#EXTM3U">> /\ IsU(3)
    /\ Len(channels) = 1
    /\ channels[1].title = <<"A">> /\ channels[1].url = <<"http://", "a">>

\* C18: a text that is_m3u_content rejects gives no channel: every text from
\* which parse_m3u emits a channel is accepted by is_m3u_content.
C18_RejectedTextHasNoChannels ==
    ppc = "returned" =>
        /\ ~is_m3u_content(content) => (channels = <<>> /\ result.total = 0)
        /\ Len(channels) > 0 => is_m3u_content(content)

C18_Witness ==
    /\ ppc = "returned"
    /\ content # <<>> /\ ~is_m3u_content(content)
    /\ \E k \in 1..Len(lines) : IsU(k)
    /\ result.total = 0

\* after n lines the most recent '#EXTINF:' or URL line is an '#EXTINF:' line
LastIsExtinf(n) ==
    \E m \in 1..n : IsE(m) /\ \A k \in (m + 1)..n : ~IsE(k) /\ ~IsU(k)

PendingIffLastIsExtinf ==
    /\ Len(current_channel) <= 1
    /\ current_channel # <<>> <=> LastIsExtinf(idx)

\* C19: after any prefix of the lines a channel is pending exactly when the most
\* recent '#EXTINF:' or URL line is an '#EXTINF:' line, at most one is pending,
\* and the list grows only by one record, when a URL line takes the slot from
\* pending to empty.
C19_TwoStateMachine ==
    [][/\ PendingIffLastIsExtinf
       /\ PendingIffLastIsExtinf'
       /\ channels' # channels =>
             /\ ppc = "loop" /\ idx < Len(lines) /\ IsU(idx + 1)
             /\ current_channel # <<>> /\ current_channel' = <<>>
             /\ Len(channels') = Len(channels) + 1
             /\ SubSeq(channels', 1, Len(channels)) = channels]_vars

C19_Witness ==
    /\ ppc = "loop" /\ idx = 3
    /\ IsE(1) /\ IsU(2) /\ IsE(3)
    /\ Len(channels) = 1 /\ Len(current_channel) = 1

\* what an '#EXTINF:' line says of title, logo and group
MetadataOf(line) ==
    [title |-> IF HasAtom(line, "tvg-name=") THEN ValueOn("tvg-name=", line)
               ELSE StripChars(AfterLastComma(line), Whitespace),
     logo |-> IF HasAtom(line, "tvg-logo=") THEN ValueOn("tvg-logo=", line) ELSE None,
     group |-> IF HasAtom(line, "group-title=") THEN ValueOn("group-title=", line)
               ELSE <<>>]

\* C20: the k-th record takes title, logo and group from the '#EXTINF:' line its
\* URL line completes, the most recent one before it, and nothing from an
\* earlier line; its url is that URL line, trimmed, and is not empty.
C20_RecordFromLastExtinf ==
    InLoop =>
        \A k \in 1..Len(channels) :
            LET j == Nth(Completing(idx), k)
                i == CHOOSE m \in 1..idx : Completes(m, j)
                md == MetadataOf(LineAt(i))
            IN /\ channels[k].title = md.title
               /\ channels[k].logo = md.logo
               /\ channels[k].group = md.group
               /\ channels[k].url = LineAt(j)
               /\ channels[k].url # <<>>
               /\ channels[k].url[1] \in {"http://", "https://"}

C20_Witness ==
    /\ ppc = "returned" /\ Len(lines) = 3
    /\ HasAtom(LineAt(1), "tvg-logo=") /\ LineAt(2) = <<"#EXTINF", ":", "-1", ",", "A">>
    /\ IsU(3)
    /\ Len(channels) = 1
    /\ channels[1] = [title |-> <<"A">>, logo |-> None, group |-> <<>>,
                      url |-> <<"http://", "a">>]

====
